---------------------------- MODULE Spec2Model ----------------------------
(* A model of create-backend-app's scaffold engine (src/utils/scaffold.ts). *)
(* The file system is one function from absolute paths (sequences of path  *)
(* segments) to entries: "none", "dir", or the content of a regular file.  *)
(* One scaffold run is a sequence of steps, one per awaited call of the    *)
(* routine; the recursive copy (fs.copy) is one step per visited entry.    *)
EXTENDS Integers, Sequences, FiniteSets, TLC

\* ------------------------------------------------------------------ bounds
MaxRuns == 2
MaxEdits == 1
MaxFilterDepth == 2

\* ------------------------------------------------------- entries and paths
None == "none"
Dir == "dir"
UserData == "user-data"
EditedData == "edited-data"

IsFile(e) == e # None /\ e # Dir

Parent(p) == SubSeq(p, 1, Len(p) - 1)

IsPrefix(p, q) == Len(p) <= Len(q) /\ SubSeq(q, 1, Len(p)) = p

Basename(p) == p[Len(p)]

\* path.join: concatenates and normalises "." , "" and ".." segments
RECURSIVE Normalize(_, _)
Normalize(acc, segs) ==
    IF segs = <<>> THEN acc
    ELSE LET s == Head(segs) IN
         IF s = "." \/ s = "" THEN Normalize(acc, Tail(segs))
         ELSE IF s = ".."
              THEN Normalize(IF acc = <<>> THEN acc ELSE Parent(acc), Tail(segs))
              ELSE Normalize(Append(acc, s), Tail(segs))

PathJoin(base, segs) == Normalize(<<>>, base \o segs)

\* ---------------------------------------------------- the modelled universe
cwd == <<"w">>
TemplateDir == <<"pkg", "templates", "express">>
Sentinel == <<".">>

\* project names, as the segments of the string split at the separator
ProjectNames == {Sentinel, <<"demo">>, <<"a", "b">>}

\* entries a template may hold, relative to the template directory
TemplateRel ==
    { <<"gitignore">>,
      <<"src">>, <<"src", "app.ts">>, <<"src", ".env">>,
      <<"src", "dist">>, <<"src", "dist", "y.js">>,
      <<"node_modules">>, <<"node_modules", "x.js">> }

\* entries a user may already have in the target, relative to the target
UserRel == { <<"gitignore">>, <<".gitignore">>, <<"src">>, <<"src", "app.ts">>,
             <<"notes.txt">> }

TargetRel == TemplateRel \cup UserRel \cup {<<>>}

Targets == { PathJoin(cwd, n) : n \in ProjectNames }

Prefixes(p) == { SubSeq(p, 1, i) : i \in 0..Len(p) }

\* a project name that leads from the working directory into the template
NestedName == << "..", "pkg", "templates", "express", "demo" >>

NestedTarget == PathJoin(cwd, NestedName)

AllPaths ==
    UNION { Prefixes(TemplateDir \o r) : r \in TemplateRel }
    \cup UNION { Prefixes(t \o r) : t \in Targets, r \in TargetRel }
    \cup Prefixes(NestedTarget)

\* ------------------------------------------------------------- fs-extra
pathExists(f, p) == p \in DOMAIN f /\ f[p] # None

\* a mkdir that creates the last segment only
ensureDirNotRecursive(f, p) == [f EXCEPT ![p] = Dir]

\* fs.ensureDir: mkdir -p
ensureDir(f, p) ==
    [q \in DOMAIN f |-> IF IsPrefix(q, p) /\ f[q] = None THEN Dir ELSE f[q]]

\* a rename that leaves the source in place, as a copy would
renameKeepsSource(f, from, to) == [f EXCEPT ![to] = f[from]]

\* fs.rename of one entry (rename(2): the destination is replaced)
rename(f, from, to) == [f EXCEPT ![to] = f[from], ![from] = None]

\* fs.copyFile / fs.mkdir of one entry of the walk
copyFile(f, from, to) == [f EXCEPT ![to] = f[from]]

mkdir(f, p) == [f EXCEPT ![p] = Dir]

\* ------------------------------------------------------- the copy filter
excludePatterns ==
    { "node_modules", ".git", "dist", "build", "coverage", ".env",
      ".DS_Store", "package-lock.json", "yarn.lock", "pnpm-lock.yaml" }

\* a split that loses the first part
PartsDropsFirst(rel) == IF rel = <<>> THEN <<"">> ELSE Tail(rel)

\* relativePath.split(path.sep): the empty string splits into one empty part
Parts(rel) == IF rel = <<>> THEN <<"">> ELSE rel

\* relativePath === pattern: a pattern holds no separator
WholePathIs(rel, pattern) == Len(rel) = 1 /\ rel[1] = pattern

\* a filter that compares the parts without regard to case
LowerCase(name) ==
    IF name = "Dist" THEN "dist" ELSE IF name = "Build" THEN "build" ELSE name

shouldExcludeIgnoresCase(rel) ==
    \E pattern \in excludePatterns :
        \/ \E i \in 1..Len(Parts(rel)) : LowerCase(Parts(rel)[i]) = pattern
        \/ WholePathIs(rel, pattern)

\* a filter that compares the whole relative path only
shouldExcludeWholePathOnly(rel) ==
    \E pattern \in excludePatterns : WholePathIs(rel, pattern)

shouldExclude(rel) ==
    \E pattern \in excludePatterns :
        \/ \E i \in 1..Len(Parts(rel)) : Parts(rel)[i] = pattern
        \/ WholePathIs(rel, pattern)

filter(rel) == ~shouldExclude(rel)

\* ------------------------------------------------------------------ state
VARIABLES
    fs,               \* the file system
    projectName,      \* argument of scaffold
    pc,               \* position of the run; "idle" after a user edit
    targetPath,       \* const targetPath
    exists,           \* const exists
    visited,          \* entries of the template the walk has handled
    copied,           \* entries the walk has written to the target
    renameAttempted,  \* fs.rename was called in this run
    exitCode,         \* process exit code, -1 while running
    returned,         \* value scaffold returned, <<"?">> while none
    cause,            \* why the run ended
    pre,              \* file system when the run started
    created,          \* paths the directory step created in this run
    run,              \* number of the run
    edits,            \* user edits made between runs
    reported          \* success messages written to the console in this run

vars == << fs, projectName, pc, targetPath, exists, visited, copied,
           renameAttempted, exitCode, returned, cause, pre, created, run, edits,
           reported >>

NoPath == <<"?">>

\* one call of the copy filter, taken on its own
VARIABLES
    relativePath,     \* const relativePath of the filter callback
    filterReturn,     \* what the callback returned
    filterPc          \* "idle", "called" or "returned"

filterVars == << relativePath, filterReturn, filterPc >>

FilterIdle ==
    /\ relativePath = <<>>
    /\ filterReturn = FALSE
    /\ filterPc = "idle"

\* the command line entry that calls scaffold
VARIABLES
    cliEntry,         \* "main" (cli/main.ts, prompts) or "plain" (no prompt)
    cliArg,           \* the [project-name] argument, <<>> when omitted
    cliAnswer,        \* what the prompt returned
    cliTemplateDir    \* const templateDir handed to scaffold

cliVars == << cliEntry, cliArg, cliAnswer, cliTemplateDir >>

Omitted == <<>>

NoAnswer == <<"?">>

Cancelled == <<"cancel-symbol">>

CliIdle ==
    /\ cliEntry = "none"
    /\ cliArg = Omitted
    /\ cliAnswer = NoAnswer
    /\ cliTemplateDir = NoPath

\* one request through the validate middleware of the generated project
VARIABLES
    schemas,          \* keys of the SchemaMap that hold a schema
    req,              \* req.params, req.query, req.headers, req.body
    origReq,          \* the request as it arrived
    res,              \* the response: status 0 while nothing was sent
    nextCalls,        \* calls of next()
    sends,            \* responses sent by the middleware
    parseLog,         \* keys handed to safeParse, in order
    keyIdx,           \* position of the loop in `order`
    validatePc        \* "idle", "loop" or "returned"

validateVars == << schemas, req, origReq, res, nextCalls, sends, parseLog,
                   keyIdx, validatePc >>

SchemaKeys == { "params", "query", "headers", "body" }

NoResponse == [status |-> 0, success |-> TRUE, errorIn |-> "none", errors |-> "none"]

ValidateIdle ==
    /\ schemas = {}
    /\ req = [k \in SchemaKeys |-> "raw-ok"]
    /\ origReq = req
    /\ res = NoResponse
    /\ nextCalls = 0
    /\ parseLog = << >>
    /\ keyIdx = 1
    /\ sends = 0
    /\ validatePc = "idle"

\* one request through the generated Express app, and direct calls of its
\* error handler
VARIABLES
    isDevelopment,      \* config.isDevelopment
    userRoutesMounted,  \* app.ts line 23 is in effect
    appReq,             \* the request: method, path, body
    fault,              \* the route handler that raises, and the error it raises
    appErr,             \* the error travelling down the stack
    raisedBy,           \* the layer that raised appErr
    layerIdx,           \* position in the middleware stack
    appRes,             \* the response sent
    appLog,             \* records given to logger.error
    appPc,              \* "idle", "routing", "responded" or "direct"
    ehErrs,             \* errors errorHandler is called with directly
    responses           \* what errorHandler answered to each of them

appVars == << isDevelopment, userRoutesMounted, appReq, fault, appErr, raisedBy,
              layerIdx, appRes, appLog, appPc, ehErrs, responses >>

NoError == [message |-> "none", stack |-> "none", status |-> 0]

NoFault == [at |-> "none", err |-> NoError]

NoAppResponse == [status |-> 0, kind |-> "none", body |-> [success |-> TRUE]]

IdleRequest == [method |-> "GET", path |-> "/health", body |-> "valid"]

AppIdle ==
    /\ isDevelopment = FALSE
    /\ userRoutesMounted = FALSE
    /\ appReq = IdleRequest
    /\ fault = NoFault
    /\ appErr = NoError
    /\ raisedBy = "none"
    /\ layerIdx = 1
    /\ appRes = NoAppResponse
    /\ appLog = << >>
    /\ appPc = "idle"
    /\ ehErrs = << >>
    /\ responses = << >>

\* one call of a method of the generated UserService
VARIABLES
    db,               \* the user collection: the keys (ids, emails) it holds
    dbDown,           \* the database rejects every query
    svcMethod,        \* "findByEmail" or "findById"
    svcArg,           \* the email or id asked for
    svcLocal,         \* const user / const document
    svcOutcome,       \* how the promise of the method settled
    svcLog,           \* messages given to logger.error
    svcPc             \* "idle", "called", "awaited", "returning" or "settled"

svcVars == << db, dbDown, svcMethod, svcArg, svcLocal, svcOutcome, svcLog, svcPc >>

NotSettled == [kind |-> "pending", value |-> "none"]

ServiceIdle ==
    /\ db = {}
    /\ dbDown = FALSE
    /\ svcMethod = "none"
    /\ svcArg = "none"
    /\ svcLocal = "unset"
    /\ svcOutcome = NotSettled
    /\ svcLog = << >>
    /\ svcPc = "idle"

\* the state outside the scaffold run
others == << filterVars, cliVars, validateVars, appVars, svcVars >>

OthersIdle == FilterIdle /\ CliIdle /\ ValidateIdle /\ AppIdle /\ ServiceIdle

\* the state outside one call of the filter
outsideFilter == << vars, cliVars, validateVars, appVars, svcVars >>

\* the state outside the validate middleware
outsideValidate == << vars, cliVars, filterVars, appVars, svcVars >>

\* the state outside the generated app
outsideApp == << vars, cliVars, filterVars, validateVars, svcVars >>

\* the state outside the service
outsideService == << vars, cliVars, filterVars, validateVars, appVars >>

allVars == << vars, others >>

\* --------------------------------------------------------- initial states
TemplateDirs == { <<"src">>, <<"src", "dist">>, <<"node_modules">> }

\* the trees a template directory may hold: closed under parent
TemplateTrees ==
    { S \in SUBSET TemplateRel :
        \A r \in S : Len(r) > 1 => Parent(r) \in S /\ Parent(r) \in TemplateDirs }

\* what a user may already keep in a target directory
UserTrees ==
    { u \in [UserRel -> {None, Dir, UserData}] :
        /\ u[<<"gitignore">>] # Dir
        /\ u[<<".gitignore">>] # Dir
        /\ u[<<"notes.txt">>] = UserData
        /\ u[<<"src", "app.ts">>] # Dir
        /\ u[<<"src", "app.ts">>] # None => u[<<"src">>] = Dir }

Suffix(p, base) == SubSeq(p, Len(base) + 1, Len(p))

InitFs(name, templateExists, tree, targetState, utree) ==
    LET tg == PathJoin(cwd, name) IN
    [p \in AllPaths |->
        IF IsPrefix(p, TemplateDir)
        THEN IF p = TemplateDir /\ ~templateExists THEN None ELSE Dir
        ELSE IF IsPrefix(TemplateDir, p)
        THEN LET rel == Suffix(p, TemplateDir) IN
             IF ~templateExists \/ rel \notin tree THEN None
             ELSE IF rel \in TemplateDirs THEN Dir ELSE Basename(rel)
        ELSE IF p = cwd THEN Dir
        ELSE IF IsPrefix(tg, p)
        THEN LET rel == Suffix(p, tg) IN
             IF targetState = "absent" THEN None
             ELSE IF targetState = "file"
                  THEN (IF rel = <<>> THEN UserData ELSE None)
                  ELSE IF rel = <<>> THEN Dir
                       ELSE IF rel \in UserRel THEN utree[rel] ELSE None
        ELSE IF IsPrefix(p, tg)
        THEN (IF targetState = "absent" THEN None ELSE Dir)
        ELSE None]

Init ==
    /\ projectName \in ProjectNames
    /\ \E templateExists \in BOOLEAN, tree \in TemplateTrees,
          targetState \in {"absent", "file", "dir"}, utree \in UserTrees :
          /\ projectName = Sentinel => targetState = "dir"
          /\ ~templateExists => tree = {}
          /\ targetState # "dir" => utree = CHOOSE u \in UserTrees : TRUE
          /\ fs = InitFs(projectName, templateExists, tree, targetState, utree)
    /\ pc = "start"
    /\ targetPath = NoPath
    /\ exists = FALSE
    /\ visited = {}
    /\ copied = {}
    /\ renameAttempted = FALSE
    /\ exitCode = -1
    /\ returned = NoPath
    /\ cause = "none"
    /\ pre = fs
    /\ created = {}
    /\ run = 1
    /\ edits = 0
    /\ reported = {}
    /\ OthersIdle

\* ------------------------------------------------- the steps of scaffold
\* line 69
CopiedMessage == "Template files copied successfully!"

\* line 83
ScaffoldedMessage == "Project scaffolded successfully!"

\* lines 6-11: cwd, targetPath, exists
\* a resolution that scaffolds into the working directory whatever the name
ResolveTargetIgnoresName(name) == cwd

ResolveTarget(name) == IF name = Sentinel THEN cwd ELSE PathJoin(cwd, name)

ResolvePath ==
    /\ pc = "start"
    /\ targetPath' = ResolveTarget(projectName)
    /\ exists' = pathExists(fs, ResolveTarget(projectName))
    /\ pc' = "directory"
    /\ UNCHANGED << fs, projectName, visited, copied, renameAttempted,
                    exitCode, returned, cause, pre, created, run, edits >>
    /\ UNCHANGED others
    /\ UNCHANGED reported

\* lines 14-21: the directory is created only in the last branch
\* a directory step that does not look at `exists`
NeedsCreationIgnoresExists(name, ex) == name # Sentinel

NeedsCreation(name, ex) == name # Sentinel /\ ~ex

EnsureDirectory ==
    /\ pc = "directory"
    /\ IF NeedsCreation(projectName, exists)
       THEN /\ fs' = ensureDir(fs, targetPath)
            /\ created' = { q \in DOMAIN fs : fs[q] = None /\ IsPrefix(q, targetPath) }
       ELSE UNCHANGED << fs, created >>
    /\ pc' = "validate"
    /\ UNCHANGED << projectName, targetPath, exists, visited, copied,
                    renameAttempted, exitCode, returned, cause, pre, run, edits >>
    /\ UNCHANGED others
    /\ UNCHANGED reported

\* line 20 rejects (an I/O error of mkdir): the rejection is not caught
EnsureDirectoryFails ==
    /\ pc = "directory"
    /\ NeedsCreation(projectName, exists)
    /\ pc' = "exit"
    /\ exitCode' = 1
    /\ cause' = "mkdir-error"
    /\ UNCHANGED << fs, projectName, targetPath, exists, visited, copied,
                    renameAttempted, returned, pre, created, run, edits >>
    /\ UNCHANGED others
    /\ UNCHANGED reported

\* lines 24-28
\* a validation that takes the template for granted
templateAssumed(f) == TRUE

templateFound(f) == pathExists(f, TemplateDir)

VerifyTemplate ==
    /\ pc = "validate"
    /\ IF templateFound(fs)
       THEN /\ pc' = "copy"
            /\ UNCHANGED << exitCode, cause >>
       ELSE /\ pc' = "exit"
            /\ exitCode' = 1
            /\ cause' = "template-missing"
    /\ UNCHANGED << fs, projectName, targetPath, exists, visited, copied,
                    renameAttempted, returned, pre, created, run, edits >>
    /\ UNCHANGED others
    /\ UNCHANGED reported

\* ------------------------------------------------ lines 33-68: fs.copy
\* the options passed to fs.copy
\* fs.copy left at its default, which replaces existing files
overwriteByDefault == TRUE

overwrite == FALSE

\* errorOnExist switched on: an existing destination file throws
errorOnExistSet == TRUE

errorOnExist == FALSE

\* what fs.copy does with one entry that passed the filter
\*   checkPaths: the destination is neither the source nor inside it
\*   checkPaths: a directory never replaces a non-directory, nor the reverse
\*   onDir: mkdir when the destination is missing
\*   onFile: copyFile when missing, else overwrite / throw / skip by options
EntryOutcome(f, rel, tgt) ==
    LET src == TemplateDir \o rel
        dest == tgt \o rel
    IN  IF rel = <<>> /\ IsPrefix(TemplateDir, tgt) THEN "self-copy"
        ELSE IF f[src] = Dir
        THEN IF f[dest] = None THEN "mkdir"
             ELSE IF f[dest] = Dir THEN "enter" ELSE "type-conflict"
        ELSE IF f[dest] = None THEN "copy"
             ELSE IF f[dest] = Dir THEN "type-conflict"
             ELSE IF overwrite THEN "copy"
             ELSE IF errorOnExist THEN "dest-exists" ELSE "skip"

\* the directories of the template the walk has descended into
Descended(rel) ==
    /\ rel \in visited
    /\ filter(rel)
    /\ fs[TemplateDir \o rel] = Dir

\* the entries the walk may handle next: siblings come in no fixed order
Pending(rel) ==
    /\ rel \notin visited
    /\ pathExists(fs, TemplateDir \o rel)
    /\ IF rel = <<>> THEN TRUE ELSE Descended(Parent(rel))

WalkRel == TemplateRel \cup {<<>>}

\* a catch block that reports the error and goes on
CopyErrorSwallowed(c) ==
    /\ cause' = c
    /\ UNCHANGED << pc, exitCode >>

\* a catch block that starts the pipeline over at the validation
CopyFatalRetries(c) ==
    /\ pc' = "validate"
    /\ cause' = c
    /\ UNCHANGED exitCode

CopyFatal(c) ==
    /\ pc' = "exit"
    /\ exitCode' = 1
    /\ cause' = c

\* one entry of the walk: filtered out, copied, created, entered or skipped
CopyEntry(rel) ==
    /\ pc = "copy"
    /\ Pending(rel)
    /\ IF ~filter(rel)
       THEN /\ visited' = visited \cup {rel}
            /\ UNCHANGED << fs, copied, pc, exitCode, cause >>
       ELSE LET o == EntryOutcome(fs, rel, targetPath) IN
            IF o \in {"self-copy", "type-conflict", "dest-exists"}
            THEN /\ CopyFatal(o)
                 /\ UNCHANGED << fs, visited, copied >>
            ELSE /\ visited' = visited \cup {rel}
                 /\ fs' = IF o = "mkdir" THEN ensureDir(fs, targetPath \o rel)
                          ELSE IF o = "copy"
                               THEN copyFile(fs, TemplateDir \o rel, targetPath \o rel)
                               ELSE fs
                 /\ copied' = IF o \in {"mkdir", "copy"} THEN copied \cup {rel} ELSE copied
                 /\ UNCHANGED << pc, exitCode, cause >>
    /\ UNCHANGED << projectName, targetPath, exists, renameAttempted, returned,
                    pre, created, run, edits >>
    /\ UNCHANGED others
    /\ UNCHANGED reported

\* an I/O error (permission, disk full) while handling one entry: line 78
CopyIOError(rel) ==
    /\ pc = "copy"
    /\ Pending(rel)
    /\ filter(rel)
    /\ CopyFatal("io-error")
    /\ UNCHANGED << fs, projectName, targetPath, exists, visited, copied,
                    renameAttempted, returned, pre, created, run, edits >>
    /\ UNCHANGED others
    /\ UNCHANGED reported

\* fs.copy not awaited: the routine goes on while entries are pending
CopyDoneNotAwaited ==
    /\ pc = "copy"
    /\ pc' = "fixup"
    /\ UNCHANGED << fs, projectName, targetPath, exists, visited, copied,
                    renameAttempted, exitCode, returned, cause, pre, created,
                    run, edits >>
    /\ UNCHANGED others
    /\ reported' = reported \cup { CopiedMessage }

\* line 69: the promise of fs.copy resolves when the walk is complete
CopyDone ==
    /\ pc = "copy"
    /\ \A rel \in WalkRel : ~Pending(rel)
    /\ pc' = "fixup"
    /\ UNCHANGED << fs, projectName, targetPath, exists, visited, copied,
                    renameAttempted, exitCode, returned, cause, pre, created,
                    run, edits >>
    /\ UNCHANGED others
    /\ reported' = reported \cup { CopiedMessage }

\* ------------------------------------------------ lines 72-77: the fixup
\* a fixup that looks for the dotted name
gitignorePathDotted(tgt) == tgt \o <<".gitignore">>

gitignorePath(tgt) == tgt \o <<"gitignore">>

\* a fixup that puts the dotted file into the working directory
dotGitignorePathInCwd(tgt) == cwd \o <<".gitignore">>

dotGitignorePath(tgt) == tgt \o <<".gitignore">>

\* lines 75-77 and 83-92
RenameFixup ==
    /\ pc = "fixup"
    /\ IF pathExists(fs, gitignorePath(targetPath))
       THEN /\ fs' = rename(fs, gitignorePath(targetPath), dotGitignorePath(targetPath))
            /\ renameAttempted' = TRUE
       ELSE UNCHANGED << fs, renameAttempted >>
    /\ pc' = "done"
    /\ exitCode' = 0
    /\ returned' = targetPath
    /\ UNCHANGED << projectName, targetPath, exists, visited, copied, cause,
                    pre, created, run, edits >>
    /\ UNCHANGED others
    /\ reported' = reported \cup { ScaffoldedMessage }

\* fs.rename rejects: caught at line 78
RenameFails ==
    /\ pc = "fixup"
    /\ pathExists(fs, gitignorePath(targetPath))
    /\ renameAttempted' = TRUE
    /\ pc' = "exit"
    /\ exitCode' = 1
    /\ cause' = "rename-error"
    /\ UNCHANGED << fs, projectName, targetPath, exists, visited, copied,
                    returned, pre, created, run, edits >>
    /\ UNCHANGED others
    /\ UNCHANGED reported

\* --------------------------------------------------------- environment
\* between two runs the user edits a file of the project
UserEdit ==
    /\ pc \in {"done", "idle"}
    /\ edits < MaxEdits
    /\ \E p \in DOMAIN fs :
        /\ IsPrefix(targetPath, p)
        /\ IsFile(fs[p])
        /\ fs[p] # EditedData
        /\ fs' = [fs EXCEPT ![p] = EditedData]
    /\ edits' = edits + 1
    /\ pc' = "idle"
    /\ UNCHANGED << projectName, targetPath, exists, visited, copied,
                    renameAttempted, exitCode, returned, cause, pre, created, run >>
    /\ UNCHANGED others
    /\ UNCHANGED reported

\* the tool is invoked again with the same projectName and templateSource
Rerun ==
    /\ pc \in {"done", "idle"}
    /\ run < MaxRuns
    /\ run' = run + 1
    /\ pc' = "start"
    /\ pre' = fs
    /\ targetPath' = NoPath
    /\ exists' = FALSE
    /\ visited' = {}
    /\ copied' = {}
    /\ renameAttempted' = FALSE
    /\ exitCode' = -1
    /\ returned' = NoPath
    /\ cause' = "none"
    /\ created' = {}
    /\ UNCHANGED << fs, projectName, edits >>
    /\ UNCHANGED others
    /\ reported' = {}

Next ==
    \/ ResolvePath
    \/ EnsureDirectory
    \/ EnsureDirectoryFails
    \/ VerifyTemplate
    \/ \E rel \in WalkRel : CopyEntry(rel)
    \/ \E rel \in WalkRel : CopyIOError(rel)
    \/ CopyDone
    \/ RenameFixup
    \/ RenameFails
    \/ UserEdit
    \/ Rerun

Spec == Init /\ [][Next]_vars

TypeOK ==
    /\ fs \in [AllPaths -> {None, Dir, UserData, EditedData} \cup { Basename(r) : r \in TemplateRel }]
    /\ pc \in {"start", "directory", "validate", "copy", "fixup", "done", "idle", "exit"}
    /\ exitCode \in {-1, 0, 1}
    /\ run \in 1..MaxRuns
    /\ edits \in 0..MaxEdits

\* runs whose project name may lead into the template directory
InitNested ==
    /\ projectName \in { << "demo" >>, NestedName }
    /\ \E templateExists \in BOOLEAN, tree \in TemplateTrees,
          targetState \in {"absent", "file", "dir"}, utree \in UserTrees :
          /\ projectName = NestedName => targetState = "absent"
          /\ ~templateExists => tree = {}
          /\ targetState # "dir" => utree = CHOOSE u \in UserTrees : TRUE
          /\ fs = InitFs(projectName, templateExists, tree, targetState, utree)
    /\ pc = "start"
    /\ targetPath = NoPath
    /\ exists = FALSE
    /\ visited = {}
    /\ copied = {}
    /\ renameAttempted = FALSE
    /\ exitCode = -1
    /\ returned = NoPath
    /\ cause = "none"
    /\ pre = fs
    /\ created = {}
    /\ run = 1
    /\ edits = 0
    /\ reported = {}
    /\ OthersIdle

SpecNested == InitNested /\ [][Next]_vars

\* no scaffold run: the routine is not called
ScaffoldIdle ==
    /\ fs = [p \in AllPaths |-> None]
    /\ projectName = Sentinel
    /\ pc = "off"
    /\ targetPath = NoPath
    /\ exists = FALSE
    /\ visited = {}
    /\ copied = {}
    /\ renameAttempted = FALSE
    /\ exitCode = -1
    /\ returned = NoPath
    /\ cause = "none"
    /\ pre = fs
    /\ created = {}
    /\ run = 1
    /\ edits = 0
    /\ reported = {}

\* ------------------------------------------------ the command line entry
\* the directory of the compiled entry file and the root of the package
InstallRoot == << "pkg" >>

dirname == InstallRoot \o << "dist", "cli" >>

\* path.join(__dirname, "..", "..", "templates", "express")
templateDirOf(dir) == PathJoin(dir, << "..", "..", "templates", "express" >>)

\* a default that names a directory instead of the current one
argumentDefaultNamed == << "demo" >>

\* .argument("[project-name]", ..., "."): the default of the plain entry
argumentDefault == Sentinel

\* the process starts with the file system of Init and nothing run yet
InitCli ==
    /\ cliEntry \in {"main", "plain"}
    /\ cliArg \in ProjectNames \cup {Omitted}
    /\ cliAnswer = NoAnswer
    /\ cliTemplateDir = NoPath
    /\ projectName = NoPath
    /\ \E layout \in ProjectNames, templateExists \in BOOLEAN,
          tree \in TemplateTrees,
          targetState \in {"absent", "file", "dir"}, utree \in UserTrees :
          /\ cliArg # Omitted => layout = cliArg
          /\ cliArg = Omitted => layout = Sentinel
          /\ layout = Sentinel => targetState = "dir"
          /\ ~templateExists => tree = {}
          /\ targetState # "dir" => utree = CHOOSE u \in UserTrees : TRUE
          /\ fs = InitFs(layout, templateExists, tree, targetState, utree)
    /\ pc = "cli"
    /\ targetPath = NoPath
    /\ exists = FALSE
    /\ visited = {}
    /\ copied = {}
    /\ renameAttempted = FALSE
    /\ exitCode = -1
    /\ returned = NoPath
    /\ cause = "none"
    /\ pre = fs
    /\ created = {}
    /\ run = 1
    /\ edits = 0
    /\ reported = {}
    /\ FilterIdle
    /\ ValidateIdle
    /\ AppIdle
    /\ ServiceIdle

\* scaffold(projectName, templateDir) is called
CallScaffold(name) ==
    /\ projectName' = name
    /\ cliTemplateDir' = templateDirOf(dirname)
    /\ pc' = "start"

\* the entry without a prompt: the argument defaults to "."
CliPlainAction ==
    /\ pc = "cli"
    /\ cliEntry = "plain"
    /\ CallScaffold(IF cliArg = Omitted THEN argumentDefault ELSE cliArg)
    /\ UNCHANGED << fs, targetPath, exists, visited, copied, renameAttempted,
                    exitCode, returned, cause, pre, created, run, edits >>
    /\ UNCHANGED << cliEntry, cliArg, cliAnswer, filterVars, validateVars,
                   appVars, svcVars >>
    /\ UNCHANGED reported

\* cli/main.ts lines 18-25 and 33-41: a missing name is asked for
CliMainAction ==
    /\ pc = "cli"
    /\ cliEntry = "main"
    /\ IF cliArg = Omitted
       THEN /\ pc' = "prompt"
            /\ UNCHANGED << projectName, cliTemplateDir >>
       ELSE CallScaffold(cliArg)
    /\ UNCHANGED << fs, targetPath, exists, visited, copied, renameAttempted,
                    exitCode, returned, cause, pre, created, run, edits >>
    /\ UNCHANGED << cliEntry, cliArg, cliAnswer, filterVars, validateVars,
                   appVars, svcVars >>
    /\ UNCHANGED reported

\* a prompt whose cancellation falls back to a default name
PromptReturnsFallsBack ==
    /\ pc = "prompt"
    /\ \E answer \in ProjectNames \cup {Cancelled} :
        /\ cliAnswer' = answer
        /\ CallScaffold(IF answer = Cancelled THEN << "demo" >> ELSE answer)
    /\ UNCHANGED << fs, targetPath, exists, visited, copied, renameAttempted,
                    exitCode, returned, cause, pre, created, run, edits >>
    /\ UNCHANGED << cliEntry, cliArg, filterVars, validateVars, appVars,
                    svcVars >>
    /\ UNCHANGED reported

\* cli/main.ts lines 21-41: text() resolves with a name or the cancel symbol
PromptReturns ==
    /\ pc = "prompt"
    /\ \E answer \in ProjectNames \cup {Cancelled} :
        /\ cliAnswer' = answer
        /\ IF answer = Cancelled
           THEN /\ pc' = "cancelled"
                /\ exitCode' = 0
                /\ UNCHANGED << projectName, cliTemplateDir >>
           ELSE /\ CallScaffold(answer)
                /\ UNCHANGED exitCode
    /\ UNCHANGED << fs, targetPath, exists, visited, copied, renameAttempted,
                    returned, cause, pre, created, run, edits >>
    /\ UNCHANGED << cliEntry, cliArg, filterVars, validateVars, appVars,
                    svcVars >>
    /\ UNCHANGED reported

\* one process: the entry, then the run of scaffold
NextCli ==
    \/ CliPlainAction
    \/ CliMainAction
    \/ PromptReturns
    \/ ResolvePath
    \/ EnsureDirectory
    \/ EnsureDirectoryFails
    \/ VerifyTemplate
    \/ \E rel \in WalkRel : CopyEntry(rel)
    \/ \E rel \in WalkRel : CopyIOError(rel)
    \/ CopyDone
    \/ RenameFixup
    \/ RenameFails

SpecCli == InitCli /\ [][NextCli]_allVars

\* ------------------------------------- lines 36-67: the filter, one call
\* names of entries fs.copy may hand to the filter
FilterNames ==
    { "node_modules", ".git", "dist", "build", ".env",
      ".env.example", "Dist", "build.ts", ".gitignore", "gitignore", "src" }

\* relative paths of at most MaxFilterDepth segments
FilterPaths == UNION { [1..k -> FilterNames] : k \in 0..MaxFilterDepth }

InitFilter ==
    /\ ScaffoldIdle
    /\ CliIdle
    /\ ValidateIdle
    /\ AppIdle
    /\ ServiceIdle
    /\ relativePath \in FilterPaths
    /\ filterReturn = FALSE
    /\ filterPc = "called"

\* lines 37-66: the callback computes shouldExclude and returns its negation
FilterCall ==
    /\ filterPc = "called"
    /\ filterReturn' = filter(relativePath)
    /\ filterPc' = "returned"
    /\ UNCHANGED << relativePath, outsideFilter >>

NextFilter == FilterCall

SpecFilter == InitFilter /\ [][NextFilter]_allVars

\* ------------------- templates/express/src/middleware/validate.ts
\* what a part of the request may hold when it arrives
RawValues == { "raw-ok", "raw-bad" }

\* schema.safeParse: the parsed data is a new value, not the input
safeParse(value) ==
    IF value = "raw-bad"
    THEN [success |-> FALSE, data |-> "none", issues |-> "issues"]
    ELSE [success |-> TRUE, data |-> "parsed", issues |-> "none"]

\* an order that starts with the body
orderBodyFirst == << "body", "params", "query", "headers" >>

\* line 14
order == << "params", "query", "headers", "body" >>

\* validate(schemas) is mounted and a request arrives
InitValidate ==
    /\ ScaffoldIdle
    /\ CliIdle
    /\ FilterIdle
    /\ AppIdle
    /\ ServiceIdle
    /\ schemas \in SUBSET SchemaKeys
    /\ req \in [SchemaKeys -> RawValues]
    /\ origReq = req
    /\ res = NoResponse
    /\ nextCalls = 0
    /\ parseLog = << >>
    /\ keyIdx = 1
    /\ sends = 0
    /\ validatePc = "loop"

\* Express 5 (README.md line 311) defines req.query by a getter without a
\* setter: in strict code an assignment to it throws a TypeError
ReadOnlyParts == { "query" }

\* lines 16-30: one iteration of the loop over `order`
ValidateKey ==
    /\ validatePc = "loop"
    /\ keyIdx <= Len(order)
    /\ LET key == order[keyIdx] IN
       IF key \notin schemas
       THEN /\ keyIdx' = keyIdx + 1
            /\ UNCHANGED << req, res, sends, parseLog, validatePc >>
       ELSE LET parsed == safeParse(req[key]) IN
            /\ parseLog' = Append(parseLog, key)
            /\ IF ~parsed.success
               THEN /\ res' = [status |-> 400, success |-> FALSE,
                               errorIn |-> key, errors |-> parsed.issues]
                    /\ sends' = sends + 1
                    /\ validatePc' = "returned"
                    /\ UNCHANGED << req, keyIdx >>
               ELSE IF key \in ReadOnlyParts
               THEN /\ validatePc' = "threw"
                    /\ UNCHANGED << req, res, sends, keyIdx >>
               ELSE /\ req' = [req EXCEPT ![key] = parsed.data]
                    /\ keyIdx' = keyIdx + 1
                    /\ UNCHANGED << res, sends, validatePc >>
    /\ UNCHANGED << schemas, origReq, nextCalls, outsideValidate >>

\* line 32: the loop is over
ValidateCallsNext ==
    /\ validatePc = "loop"
    /\ keyIdx > Len(order)
    /\ nextCalls' = nextCalls + 1
    /\ validatePc' = "returned"
    /\ UNCHANGED << schemas, req, origReq, res, sends, parseLog, keyIdx,
                    outsideValidate >>

NextValidate == ValidateKey \/ ValidateCallsNext

SpecValidate == InitValidate /\ [][NextValidate]_allVars

\* ---------------- templates/express/src/middleware/errorHandler.ts
\* the errors a handler may raise
Errors ==
    [message : { "E11000 duplicate key", "connect ECONNREFUSED db:27017" },
     stack : { "at UserService.findByEmail", "at Connection.open" },
     status : { 0 }]

\* body-parser's error for a body that is not JSON
JsonSyntaxError ==
    [message |-> "Unexpected token in JSON", stack |-> "at JSON.parse",
     status |-> 400]

\* calling a three-parameter handler as plain middleware: res is next there
NotAFunctionError ==
    [message |-> "res.status is not a function", stack |-> "at errorHandler",
     status |-> 0]

\* line 6: errorHandler = (err, req, res) => ...
errorHandlerParams == 3

\* lines 7-15: what goes to logger.error
errorHandlerLog(err, rq) ==
    [error |-> err.message, stack |-> err.stack, method |-> rq.method,
     path |-> rq.path]

\* a handler that answers with the error's message in every environment
errorHandlerLeaks(err) ==
    [status |-> 500, kind |-> "json",
     body |-> [success |-> FALSE, message |-> err.message]]

\* lines 17-21: the spread adds the stack field only in development
errorHandler(err) ==
    [status |-> 500, kind |-> "json",
     body |-> IF isDevelopment
              THEN [success |-> FALSE, message |-> err.message,
                    stack |-> err.stack]
              ELSE [success |-> FALSE, message |-> "Internal server error"]]

Requests ==
    [method : { "GET", "POST" },
     path : { "/health", "/api/users", "/nowhere" },
     body : { "valid", "invalid", "malformed" }]

\* errorHandler is called by hand with two errors, one after the other
InitErrorHandler ==
    /\ ScaffoldIdle
    /\ CliIdle
    /\ FilterIdle
    /\ ValidateIdle
    /\ ServiceIdle
    /\ isDevelopment \in BOOLEAN
    /\ userRoutesMounted = FALSE
    /\ appReq \in { r \in Requests : r.body = "valid" /\ r.path # "/nowhere" }
    /\ fault = NoFault
    /\ appErr = NoError
    /\ raisedBy = "none"
    /\ layerIdx = 1
    /\ appRes = NoAppResponse
    /\ appLog = << >>
    /\ appPc = "direct"
    /\ ehErrs \in [1..2 -> Errors]
    /\ responses = << >>

\* lines 6-22
ErrorHandlerCall ==
    /\ appPc = "direct"
    /\ Len(responses) < Len(ehErrs)
    /\ LET err == ehErrs[Len(responses) + 1] IN
       /\ appLog' = Append(appLog, errorHandlerLog(err, appReq))
       /\ responses' = Append(responses, errorHandler(err))
    /\ UNCHANGED << isDevelopment, userRoutesMounted, appReq, fault, appErr,
                    raisedBy, layerIdx, appRes, appPc, ehErrs, outsideApp >>

NextErrorHandler == ErrorHandlerCall

SpecErrorHandler == InitErrorHandler /\ [][NextErrorHandler]_allVars

\* ------------------------------- templates/express/src/app.ts
\* lines 10-34: the stack in the order of registration
AppStack ==
    << "helmet", "cors", "json", "urlencoded", "health" >>
        \o (IF userRoutesMounted THEN << "users" >> ELSE << >>)
        \o << "notFound", "errorHandler" >>

\* Function.length of the handler of a layer
Arity(name) ==
    CASE name = "errorHandler" -> errorHandlerParams
      [] name \in { "health", "notFound" } -> 2
      [] OTHER -> 3

\* app.get registers a route; app.use registers plain middleware
IsRoute(name) == name = "health"

\* the layer's path (and, for a route, its method) fits the request
Matches(name, rq) ==
    CASE name = "health" -> rq.path = "/health" /\ rq.method = "GET"
      [] name = "users" -> rq.path = "/api/users"
      [] OTHER -> TRUE

\* Express hands an error to a layer only if it is plain middleware whose
\* handler has four parameters
TakesErrors(name) == ~IsRoute(name) /\ Arity(name) = 4

JsonResponse(st, b) == [status |-> st, kind |-> "json", body |-> b]

\* the answer of Express when the stack is exhausted: an HTML page
FinalResponse(err) ==
    [status |-> IF err = NoError THEN 404
                ELSE IF err.status >= 400 /\ err.status < 600 THEN err.status
                ELSE 500,
     kind |-> "html",
     body |-> [html |-> "error page"]]

\* the app is listening and a request arrives
InitApp ==
    /\ ScaffoldIdle
    /\ CliIdle
    /\ FilterIdle
    /\ ValidateIdle
    /\ ServiceIdle
    /\ isDevelopment \in BOOLEAN
    /\ userRoutesMounted \in BOOLEAN
    /\ appReq \in Requests
    /\ fault \in { NoFault } \cup [at : { "health", "users" }, err : Errors]
    /\ appErr = NoError
    /\ raisedBy = "none"
    /\ layerIdx = 1
    /\ appRes = NoAppResponse
    /\ appLog = << >>
    /\ appPc = "routing"
    /\ ehErrs = << >>
    /\ responses = << >>

\* a handler raised err: Express continues down the stack with it
Raise(name, err) ==
    /\ appErr' = err
    /\ raisedBy' = name
    /\ layerIdx' = layerIdx + 1
    /\ UNCHANGED << appRes, appLog, appPc >>

PassOn ==
    /\ layerIdx' = layerIdx + 1
    /\ UNCHANGED << appErr, raisedBy, appRes, appLog, appPc >>

Respond(response) ==
    /\ appRes' = response
    /\ appPc' = "responded"
    /\ UNCHANGED << appErr, raisedBy, layerIdx, appLog >>

\* the handler of a layer, called without an error in flight
Handle(name) ==
    CASE name = "json" ->
            \* line 14
            IF appReq.body = "malformed" THEN Raise(name, JsonSyntaxError)
            ELSE PassOn
      [] name = "health" ->
            \* lines 18-20
            IF fault.at = name THEN Raise(name, fault.err)
            ELSE Respond(JsonResponse(200, [status |-> "ok"]))
      [] name = "users" ->
            \* line 23 with routes/user.routes.ts line 8
            IF appReq.method # "GET" THEN PassOn
            ELSE IF appReq.body = "invalid"
            THEN Respond(JsonResponse(400, [success |-> FALSE]))
            ELSE IF fault.at = name THEN Raise(name, fault.err)
            ELSE Respond(JsonResponse(200, [message |-> "User fetched Successfully"]))
      [] name = "notFound" ->
            \* lines 26-31
            Respond(JsonResponse(404, [success |-> FALSE]))
      [] name = "errorHandler" ->
            \* line 34, called as (req, res, next)
            Raise(name, NotAFunctionError)
      [] OTHER ->
            \* lines 10, 11, 15
            PassOn

\* Express moves to the next layer of the stack
Dispatch ==
    /\ appPc = "routing"
    /\ layerIdx <= Len(AppStack)
    /\ LET name == AppStack[layerIdx] IN
       IF ~Matches(name, appReq) THEN PassOn
       ELSE IF appErr # NoError
       THEN IF TakesErrors(name)
            THEN /\ appLog' = Append(appLog, errorHandlerLog(appErr, appReq))
                 /\ appRes' = errorHandler(appErr)
                 /\ appPc' = "responded"
                 /\ UNCHANGED << appErr, raisedBy, layerIdx >>
            ELSE PassOn
       ELSE IF Arity(name) > 3 THEN PassOn
       ELSE Handle(name)
    /\ UNCHANGED << isDevelopment, userRoutesMounted, appReq, fault, ehErrs,
                    responses, outsideApp >>

\* no layer is left: Express answers by itself
FinalHandler ==
    /\ appPc = "routing"
    /\ layerIdx > Len(AppStack)
    /\ appRes' = FinalResponse(appErr)
    /\ appPc' = "responded"
    /\ UNCHANGED << isDevelopment, userRoutesMounted, appReq, fault, appErr,
                    raisedBy, layerIdx, appLog, ehErrs, responses, outsideApp >>

NextApp == Dispatch \/ FinalHandler

SpecApp == InitApp /\ [][NextApp]_allVars

\* ------------------ templates/express/src/services: UserService
\* ids and emails a call may ask for
UserKeys == { "ann", "bob", "cy" }

\* user.service.ts line 7: the service of the User model
modelName == "User"

\* the Query object Mongoose returns before it is awaited
QueryObject == "query"

\* JavaScript truthiness of what the locals may hold: only null is falsy
Truthy(v) == v # "null"

\* what the database answers to findOne / findById: the document or null
Lookup(d, key) == IF key \in d THEN key ELSE "null"

DbError == << "MongoNetworkError" >>

NotFound(name) == << name, "not found" >>

Resolved(v) == [kind |-> "resolved", value |-> v]

Rejected(e) == [kind |-> "rejected", value |-> e]

InitService ==
    /\ ScaffoldIdle
    /\ CliIdle
    /\ FilterIdle
    /\ ValidateIdle
    /\ AppIdle
    /\ db \in SUBSET UserKeys
    /\ dbDown \in BOOLEAN
    /\ svcMethod \in { "findByEmail", "findById" }
    /\ svcArg \in UserKeys
    /\ svcLocal = "unset"
    /\ svcOutcome = NotSettled
    /\ svcLog = << >>
    /\ svcPc = "called"

\* user.service.ts lines 11-20: findOne is not awaited, `user` is the Query
FindByEmailBody ==
    /\ svcPc = "called"
    /\ svcMethod = "findByEmail"
    /\ LET user == QueryObject IN
       /\ svcLocal' = user
       /\ IF ~Truthy(user)
          THEN /\ svcLog' = Append(svcLog, "Error fetching user by email")
               /\ svcOutcome' = Rejected(NotFound("User"))
               /\ svcPc' = "settled"
          ELSE /\ svcPc' = "returning"
               /\ UNCHANGED << svcLog, svcOutcome >>
    /\ UNCHANGED << db, dbDown, svcMethod, svcArg, outsideService >>

\* user.service.ts line 16: the promise of the async function follows the
\* returned Query, which runs after the try block was left
ReturnedQuerySettles ==
    /\ svcPc = "returning"
    /\ svcOutcome' = IF dbDown THEN Rejected(DbError)
                     ELSE Resolved(Lookup(db, svcArg))
    /\ svcPc' = "settled"
    /\ UNCHANGED << db, dbDown, svcMethod, svcArg, svcLocal, svcLog,
                    outsideService >>

\* base.service.ts line 45: await this.model.findById(id)
FindByIdAwait ==
    /\ svcPc = "called"
    /\ svcMethod = "findById"
    /\ svcLocal' = IF dbDown THEN "error" ELSE Lookup(db, svcArg)
    /\ svcPc' = "awaited"
    /\ UNCHANGED << db, dbDown, svcMethod, svcArg, svcLog, svcOutcome,
                    outsideService >>

\* base.service.ts lines 47-55
FindByIdContinue ==
    /\ svcPc = "awaited"
    /\ IF svcLocal = "error"
       THEN /\ svcLog' = Append(svcLog, "Error fetching User")
            /\ svcOutcome' = Rejected(DbError)
       ELSE IF ~Truthy(svcLocal)
       THEN /\ svcLog' = Append(svcLog, "Error fetching User")
            /\ svcOutcome' = Rejected(NotFound(modelName))
       ELSE /\ svcOutcome' = Resolved(svcLocal)
            /\ UNCHANGED svcLog
    /\ svcPc' = "settled"
    /\ UNCHANGED << db, dbDown, svcMethod, svcArg, svcLocal, outsideService >>

NextService ==
    \/ FindByEmailBody
    \/ ReturnedQuerySettles
    \/ FindByIdAwait
    \/ FindByIdContinue

SpecService == InitService /\ [][NextService]_allVars

\* =================================================================== claims
\* the names the specification lists as never copied
ExclusionNames ==
    { "node_modules", ".git", "dist", "build", "coverage", ".env",
      ".DS_Store", "package-lock.json", "yarn.lock", "pnpm-lock.yaml" }

HasExcludedSegment(rel) == \E i \in 1..Len(rel) : rel[i] \in ExclusionNames

InTemplate(rel) == pathExists(fs, TemplateDir \o rel)

UnderTarget(p) == IsPrefix(targetPath, p)

\* nothing existed at or below the target when the run started
FreshTarget == \A p \in AllPaths : UnderTarget(p) => pre[p] = None

Completed == pc = "done"

\* C1 (as claimed): after a second run with the same projectName and
\* templateSource, every file that was in the target before that run has the
\* same content, the top-level .gitignore of the first run included.
C1_RerunKeepsFiles ==
    (run >= 2 /\ Completed) =>
        \A p \in AllPaths :
            (UnderTarget(p) /\ IsFile(pre[p])) => fs[p] = pre[p]

\* C2 (as claimed): after a completed run every entry that existed under the
\* target before the run is still at the same path with unchanged content.
C2_NonDestructive ==
    Completed =>
        \A p \in AllPaths :
            (UnderTarget(p) /\ pre[p] # None) => fs[p] = pre[p]

\* C3: after a completed run into a fresh target, no template entry with a
\* segment in the exclusion set, and nothing beneath one, exists in the target.
C3_ExclusionCompleteness ==
    (Completed /\ FreshTarget) =>
        \A rel \in TemplateRel :
            (InTemplate(rel) /\ HasExcludedSegment(rel))
                => ~pathExists(fs, targetPath \o rel)

C3_Witness ==
    /\ Completed
    /\ FreshTarget
    /\ InTemplate(<<"src", ".env">>)
    /\ InTemplate(<<"src", "dist", "y.js">>)
    /\ InTemplate(<<"node_modules", "x.js">>)
    /\ <<"src", "app.ts">> \in copied

\* the template entries no exclusion rule matches
Included(rel) == InTemplate(rel) /\ ~HasExcludedSegment(rel)

TemplateGitignore == <<"gitignore">>

C5_Original ==
    (Completed /\ InTemplate(TemplateGitignore)) =>
        /\ fs[dotGitignorePath(targetPath)] = fs[TemplateDir \o TemplateGitignore]
        /\ ~pathExists(fs, gitignorePath(targetPath))

\* C5 (amended): whenever the template has a top-level gitignore, after a
\* completed run the target has .gitignore and no entry named gitignore; the
\* content of .gitignore is that of the template's gitignore provided the
\* target held no entry named gitignore before the run.
C5_RenameFixup ==
    (Completed /\ InTemplate(TemplateGitignore)) =>
        /\ pathExists(fs, dotGitignorePath(targetPath))
        /\ ~pathExists(fs, gitignorePath(targetPath))
        /\ pre[gitignorePath(targetPath)] = None
            => fs[dotGitignorePath(targetPath)] = fs[TemplateDir \o TemplateGitignore]

C5_Witness ==
    /\ Completed
    /\ InTemplate(TemplateGitignore)
    /\ TemplateGitignore \in copied
    /\ renameAttempted
    /\ pre[dotGitignorePath(targetPath)] = UserData
    /\ fs[dotGitignorePath(targetPath)] = fs[TemplateDir \o TemplateGitignore]

\* the target the claims expect for the project name
ExpectedTarget == IF projectName = Sentinel THEN cwd ELSE cwd \o projectName

TemplateMissing == pre[TemplateDir] = None

\* C6: if the template source does not exist the run ends with a non-zero
\* exit, never starts the copy or the rename, and leaves nothing under the
\* target but, at most, the newly created empty target directory; a target
\* that existed is unchanged.
C6_MissingTemplateFatal ==
    TemplateMissing =>
        /\ pc \in {"start", "directory", "validate", "exit"}
        /\ visited = {} /\ copied = {} /\ ~renameAttempted
        /\ pc = "exit" => (exitCode = 1 /\ returned = NoPath)
        /\ \A p \in AllPaths :
              (IsPrefix(ExpectedTarget, p) /\ p # ExpectedTarget) => fs[p] = pre[p]
        /\ fs[ExpectedTarget] \in {pre[ExpectedTarget], Dir}
        /\ pre[ExpectedTarget] # None => fs[ExpectedTarget] = pre[ExpectedTarget]

C6_Witness ==
    /\ TemplateMissing
    /\ pc = "exit"
    /\ cause = "template-missing"
    /\ pre[ExpectedTarget] = None
    /\ fs[ExpectedTarget] = Dir

\* C7: for the project name "." the target is the working directory itself,
\* the directory step creates nothing and changes nothing, whatever the
\* directory holds, and the returned path is cwd; for every other project name
\* the target is cwd joined with the name.
C7_SentinelSemantics ==
    pc # "start" =>
        /\ projectName = Sentinel =>
              /\ targetPath = cwd
              /\ created = {}
              /\ pc \in {"directory", "validate"} => fs = pre
              /\ Completed => returned = cwd
        /\ projectName # Sentinel => targetPath = cwd \o projectName

C7_Witness ==
    /\ projectName = Sentinel
    /\ Completed
    /\ returned = cwd
    /\ pre[cwd \o <<"notes.txt">>] = UserData
    /\ pre[cwd \o <<"src">>] = Dir
    /\ <<"src", "app.ts">> \in copied

TargetPreExists == projectName # Sentinel /\ pre[ExpectedTarget] # None

\* C9 (as claimed): for a project name other than ".", a target path that
\* already exists, whatever it is, never makes the run fail: nothing is
\* created, and the run ends early only for a missing template, an I/O error
\* or a failure at an entry inside the target.
C9_Original ==
    TargetPreExists =>
        /\ created = {}
        /\ cause # "mkdir-error"
        /\ pc = "exit" =>
              \/ cause \in {"template-missing", "io-error", "rename-error"}
              \/ visited # {}

\* C9 (amended): for a project name other than ".", when the target path
\* already exists the directory step neither fails nor creates or changes
\* anything and the run goes on to template validation and copy; a target
\* that is a directory never fails the run, a target that is not a directory
\* makes the copy abort before any entry is handled.
C9_TargetReused ==
    TargetPreExists =>
        /\ created = {}
        /\ cause # "mkdir-error"
        /\ (pc \in {"directory", "validate"} \/ (pc = "copy" /\ visited = {}))
              => fs = pre
        /\ (pre[ExpectedTarget] = Dir /\ pc = "exit") =>
              \/ cause \in {"template-missing", "io-error", "rename-error"}
              \/ visited # {}
        /\ IsFile(pre[ExpectedTarget]) =>
              /\ pc \notin {"fixup", "done", "idle"}
              /\ visited = {}
              /\ fs = pre

C9_Witness ==
    /\ TargetPreExists
    /\ pre[ExpectedTarget] = Dir
    /\ pre[ExpectedTarget \o <<"gitignore">>] = UserData
    /\ pc = "copy"
    /\ <<"src">> \in copied
    /\ created = {}

CopyError == cause \in {"io-error", "type-conflict"}

\* C10: a copy error other than destination-already-exists ends the run with
\* a non-zero exit: nothing more is written, the rename is not attempted and
\* no target path is returned.
C10_FailFastCopy ==
    /\ [](CopyError =>
            /\ pc = "exit"
            /\ exitCode = 1
            /\ ~renameAttempted
            /\ returned = NoPath)
    /\ [][CopyError' => (fs' = fs /\ copied' = copied /\ visited' = visited)]_vars

C10_Witness ==
    /\ cause = "io-error"
    /\ pc = "exit"
    /\ <<"src">> \in copied
    /\ InTemplate(<<"src", "app.ts">>)
    /\ <<"src", "app.ts">> \notin visited
    /\ ~pathExists(fs, targetPath \o <<"src", "app.ts">>)

\* C11 (as claimed): a run ends with a non-zero exit only when the template
\* source is missing or the copy step hit a fatal error; every other run
\* completes with exit 0 and returns the target.
C11_Original ==
    exitCode # 0 /\ exitCode # -1 =>
        cause \in {"template-missing", "io-error", "type-conflict"}

\* C11 (amended): a run ends with a non-zero exit only when creating the
\* target directory failed, the template source is missing, the copy step hit
\* a fatal error or the rename of gitignore failed; every other run, the
\* directory-reused and file-skipped ones included, completes with exit 0 and
\* returns the target.
C11_ExitCodeSurface ==
    /\ exitCode \in {-1, 0, 1}
    /\ exitCode = -1 <=> pc \in {"start", "directory", "validate", "copy", "fixup"}
    /\ exitCode = 1 <=> pc = "exit"
    /\ pc = "exit" =>
          /\ cause \in {"mkdir-error", "template-missing", "io-error",
                        "type-conflict", "rename-error"}
          /\ returned = NoPath
    /\ exitCode = 0 =>
          /\ cause = "none"
          /\ returned = ExpectedTarget
          /\ \A rel \in WalkRel : Included(rel) => rel \in visited

C11_Witness ==
    /\ Completed
    /\ exitCode = 0
    /\ returned = cwd \o <<"demo">>
    /\ exists
    /\ IsFile(pre[targetPath \o <<"src", "app.ts">>])
    /\ <<"src", "app.ts">> \in visited \ copied

\* every template entry the filter lets through has been handled by the walk
WalkComplete == \A rel \in WalkRel : Included(rel) => rel \in visited

\* C16: the rename fixup (the existence check of target/gitignore and the
\* rename) is attempted only after the recursive copy has handled every entry,
\* and no copy write happens once the rename was attempted.
C16_PhaseOrdering ==
    /\ []((pc = "fixup" \/ renameAttempted) => WalkComplete)
    /\ [][(renameAttempted' /\ ~renameAttempted) => pc = "fixup"]_vars
    /\ [][renameAttempted =>
            (run' = run => (copied' = copied /\ visited' = visited))]_vars

C16_Witness ==
    /\ renameAttempted
    /\ Completed
    /\ TemplateGitignore \in copied
    /\ <<"src", "app.ts">> \in copied
    /\ InTemplate(<<"node_modules", "x.js">>)

PipelineOrder ==
    { <<"start", "directory">>, <<"directory", "validate">>,
      <<"validate", "copy">>, <<"copy", "fixup">>, <<"fixup", "done">> }

\* C17: every run takes its steps in the order resolve path, ensure directory,
\* validate template, copy, rename fixup, report completion, each at most once
\* and each after the previous one; the directory is created before the
\* template is validated.
C17_LinearPipeline ==
    /\ [][ \/ pc' = pc
           \/ << pc, pc' >> \in PipelineOrder
           \/ pc' = "exit" /\ pc \in {"directory", "validate", "copy", "fixup"}
           \/ pc' = "idle" /\ pc = "done"
           \/ pc' = "start" /\ pc \in {"done", "idle"} /\ run' = run + 1 ]_vars
    /\ [][(created' # created /\ run' = run)
            => (pc = "directory" /\ pc' = "validate")]_vars
    /\ [][(targetPath' # targetPath /\ run' = run)
            => (pc = "start" /\ pc' = "directory")]_vars
    /\ [][(visited' # visited /\ run' = run) => (pc = "copy" /\ pc' = "copy")]_vars
    /\ [][(renameAttempted' # renameAttempted /\ run' = run) => pc = "fixup"]_vars
    /\ [][(returned' # returned /\ run' = run) => (pc = "fixup" /\ pc' = "done")]_vars

C17_Witness ==
    /\ Completed
    /\ created = {cwd \o <<"a">>, cwd \o <<"a", "b">>}
    /\ renameAttempted
    /\ <<"src">> \in copied
    /\ returned = cwd \o <<"a", "b">>

\* C18 (as claimed): the only step at which the pipeline aborts fatally is
\* the template validation.
C18_Original == pc = "exit" => cause = "template-missing"

\* C18 (amended): the pipeline aborts fatally at four steps: a failed creation
\* of the directory, the template validation, any copy error and a failed
\* rename; an existing destination file during the copy is skipped and never
\* aborts, and a missing template always aborts at the validation.
C18_FatalBranchPoints ==
    /\ cause # "dest-exists"
    /\ (TemplateMissing /\ pc \notin {"start", "directory", "validate"})
          => pc = "exit"
    /\ pc = "exit" =>
          \/ cause = "mkdir-error" /\ visited = {} /\ fs = pre
          \/ cause = "template-missing" /\ TemplateMissing /\ visited = {}
          \/ cause \in {"io-error", "type-conflict"} /\ ~TemplateMissing
                /\ ~renameAttempted /\ ~WalkComplete
          \/ cause = "rename-error" /\ renameAttempted /\ WalkComplete

C18_Witness ==
    /\ pc = "exit"
    /\ cause = "rename-error"
    /\ <<"src", "app.ts">> \in visited \ copied
    /\ pathExists(fs, gitignorePath(targetPath))

\* names that contain or extend a member of the exclusion set
LookAlikes == { ".env.example", "Dist", "build.ts", ".gitignore", "gitignore" }

\* C19: the filter excludes an entry if and only if some segment of its
\* relative path is exactly, case-sensitively, a member of the exclusion set;
\* names that merely contain or extend a member are included, and so is the
\* template root (the empty relative path).
C19_ExactSegmentFilter ==
    filterPc = "returned" =>
        /\ filterReturn = ~HasExcludedSegment(relativePath)
        /\ (\A i \in 1..Len(relativePath) : relativePath[i] \in LookAlikes)
              => filterReturn
        /\ relativePath = <<>> => filterReturn

C19_Witness ==
    /\ filterPc = "returned"
    /\ relativePath = << "Dist", ".env.example" >>
    /\ filterReturn

\* the filter without the test `relativePath === pattern`
shouldExcludeSegmentsOnly(rel) ==
    \E pattern \in excludePatterns :
        \E i \in 1..Len(Parts(rel)) : Parts(rel)[i] = pattern

\* C20: for every relative path the filter returns the same with and without
\* the whole-path test: a path that equals a member of the exclusion set has
\* a segment that matches it.
C20_RedundantWholePath ==
    filterPc = "returned" =>
        /\ filterReturn = ~shouldExcludeSegmentsOnly(relativePath)
        /\ \A pattern \in excludePatterns :
              WholePathIs(relativePath, pattern)
                  => \E i \in 1..Len(Parts(relativePath)) :
                        Parts(relativePath)[i] = pattern

C20_Witness ==
    /\ filterPc = "returned"
    /\ relativePath = << "node_modules" >>
    /\ ~filterReturn

ScaffoldCalled == pc \notin {"off", "cli", "prompt", "cancelled"}

DocumentedOrder == << "params", "query", "headers", "body" >>

DocPosition(key) == CHOOSE i \in 1..Len(DocumentedOrder) : DocumentedOrder[i] = key

\* the supplied schema of the arriving request that fails
Fails(key) == key \in schemas /\ origReq[key] = "raw-bad"

\* the call of the middleware is over: it returned or it threw
ValidateOver == validatePc \in { "returned", "threw" }

\* C13: validate checks the supplied schemas in the order params, query,
\* headers, body, stops at the first part that fails and answers 400 with
\* errorIn naming that part; no later part is parsed after a failure.
C13_ValidateOrder ==
    /\ \A i \in 1..Len(parseLog) :
          /\ parseLog[i] \in schemas
          /\ \A j \in 1..Len(parseLog) :
                i < j => DocPosition(parseLog[i]) < DocPosition(parseLog[j])
    /\ res.status = 400 =>
          /\ Fails(res.errorIn)
          /\ \A k \in SchemaKeys :
                Fails(k) => DocPosition(res.errorIn) <= DocPosition(k)
          /\ parseLog[Len(parseLog)] = res.errorIn
          /\ \A k \in schemas :
                DocPosition(k) < DocPosition(res.errorIn)
                    => \E i \in 1..Len(parseLog) : parseLog[i] = k
          /\ validatePc = "returned"
    /\ (ValidateOver /\ \E k \in SchemaKeys : Fails(k))
          => res.status = 400

C13_Witness ==
    /\ res.status = 400
    /\ res.errorIn = "query"
    /\ parseLog = << "params", "query" >>
    /\ Fails("body")
    /\ "headers" \in schemas

\* a route handler of the app raised the error in flight
RouteErrorRaised == raisedBy \in { "health", "users" }

\* C14: an error raised by a route handler of the generated app reaches
\* errorHandler and is answered with status 500 and a JSON body with
\* success false.
C14_RouteErrorsReachHandler ==
    (appPc = "responded" /\ RouteErrorRaised) =>
        /\ appRes.status = 500
        /\ appRes.kind = "json"
        /\ appRes.body.success = FALSE
        /\ Len(appLog) = 1

\* what the app does with such an error: errorHandler is never called, the
\* answer is the HTML page of Express
C14_HandlerNeverCalled ==
    /\ appLog = << >>
    /\ (appPc = "responded" /\ appErr # NoError) => appRes.kind = "html"

C14_Witness ==
    /\ appPc = "responded"
    /\ raisedBy = "users"
    /\ appRes.kind = "html"
    /\ appRes.status = 500

\* C15: outside development the body errorHandler sends is the same for any
\* two errors, with the message "Internal server error" and no stack field;
\* in development it carries the error's message and stack; the status is
\* 500 in both.
C15_HidesInternals ==
    \A i \in 1..Len(responses) :
        LET r == responses[i]
            e == ehErrs[i]
        IN  /\ r.status = 500
            /\ r.kind = "json"
            /\ r.body.success = FALSE
            /\ ~isDevelopment =>
                  /\ r.body.message = "Internal server error"
                  /\ "stack" \notin DOMAIN r.body
                  /\ \A j \in 1..Len(responses) : responses[j].body = r.body
            /\ isDevelopment =>
                  /\ r.body.message = e.message
                  /\ "stack" \in DOMAIN r.body
                  /\ r.body.stack = e.stack

C15_Witness ==
    /\ ~isDevelopment
    /\ Len(responses) = 2
    /\ ehErrs[1].message # ehErrs[2].message
    /\ ehErrs[1].stack # ehErrs[2].stack
    /\ responses[1] = responses[2]

\* the directory step of the run is over and the run has not failed in it
PastDirectoryStep == pc \in { "validate", "copy", "fixup", "done" }

\* the run had to create its target
TargetWasMissing == projectName # Sentinel /\ pre[ExpectedTarget] = None

\* the file system of the start of the run with the target and its missing
\* ancestors added as directories
WithTargetCreated ==
    [p \in AllPaths |->
        IF p \in Prefixes(ExpectedTarget) /\ pre[p] = None THEN Dir ELSE pre[p]]

\* C21: for a non-sentinel projectName whose target does not exist, the
\* target and all of its missing intermediate directories exist before the
\* copy starts; no directory is created when the target already exists or
\* projectName is the sentinel.
C21_DirectoryCreation ==
    /\ (PastDirectoryStep /\ TargetWasMissing) =>
          /\ \A q \in Prefixes(ExpectedTarget) : fs[q] = Dir
          /\ created = { q \in Prefixes(ExpectedTarget) : pre[q] = None }
    /\ (pc = "validate" /\ TargetWasMissing) => fs = WithTargetCreated
    /\ (pc \in { "validate", "exit" } /\ cause \in { "none", "template-missing" }
            /\ ~TargetWasMissing) =>
          /\ fs = pre
          /\ created = {}
    /\ (PastDirectoryStep /\ ~TargetWasMissing) => created = {}

C21_Witness ==
    /\ pc = "copy"
    /\ visited = {}
    /\ projectName = << "a", "b" >>
    /\ pre[<< "w", "a" >>] = None
    /\ fs[<< "w", "a" >>] = Dir
    /\ fs[<< "w", "a", "b" >>] = Dir

\* the copy is over and the target holds no top-level entry named gitignore
FixupWithoutGitignore ==
    pc = "fixup" /\ fs[targetPath \o << "gitignore" >>] = None

\* C22: if after the copy no entry named gitignore exists at the top level
\* of the target, the fixup step changes nothing in the file system (an
\* existing .gitignore keeps its content) and the run ends without an error.
C22_FixupNoOp ==
    [][FixupWithoutGitignore =>
          /\ fs' = fs
          /\ pc' = "done"
          /\ exitCode' = 0
          /\ renameAttempted' = FALSE]_vars

C22_Witness ==
    /\ pc = "done"
    /\ ~renameAttempted
    /\ copied # {}
    /\ fs[targetPath \o << "gitignore" >>] = None
    /\ fs[targetPath \o << ".gitignore" >>] = UserData
    /\ fs = [p \in AllPaths |-> IF p \in { targetPath \o r : r \in copied }
                                THEN fs[p] ELSE pre[p]]

\* the entries at and below templateSource
UnderTemplate(p) == IsPrefix(TemplateDir, p)

\* C23 (as claimed): no scaffold run, successful or failed, creates, renames,
\* modifies or deletes any entry under templateSource.
C23_TemplateReadOnly ==
    \A p \in AllPaths : UnderTemplate(p) => fs[p] = pre[p]

\* the run that breaks it: the target lies inside the template, the directory
\* step has created it there and the copy has refused to copy into itself
C23_TemplateMutated ==
    /\ pc = "exit"
    /\ cause = "self-copy"
    /\ pre[NestedTarget] = None
    /\ fs[NestedTarget] = Dir

\* a missing ancestor of the target that the directory step made a directory
CreatedAncestor(p) ==
    /\ projectName # Sentinel
    /\ p \in Prefixes(ExpectedTarget)
    /\ pre[p] = None
    /\ fs[p] = Dir

\* C24: every entry that differs from the start of the run lies at or under
\* the target path, or is a missing ancestor directory of the target created
\* by the directory step; nothing else is touched.
C24_WritesConfined ==
    \A p \in AllPaths :
        fs[p] # pre[p] => (IsPrefix(ExpectedTarget, p) \/ CreatedAncestor(p))

C24_Witness ==
    /\ pc = "done"
    /\ projectName = << "a", "b" >>
    /\ pre[<< "w", "a" >>] = None
    /\ fs[<< "w", "a" >>] = Dir
    /\ renameAttempted
    /\ << "src", "app.ts" >> \in copied
    /\ \A p \in AllPaths :
          ~IsPrefix(<< "w", "a" >>, p) => fs[p] = pre[p]

\* the run ended with a non-zero exit code
FailedRun == exitCode \notin { -1, 0 }

\* C25 (as claimed): in a run that ends with a non-zero exit no success
\* message has been written, the failing rename fixup included.
C25_Original == FailedRun => reported = {}

\* C25 (amended): a failed run never writes "Project scaffolded
\* successfully!"; "Template files copied successfully!" is written exactly
\* when the copy has completed, so the one failed run that shows it is the
\* run whose rename fixup fails.
C25_NoFinalSuccessOnFailure ==
    /\ FailedRun => ScaffoldedMessage \notin reported
    /\ (FailedRun /\ CopiedMessage \in reported) => cause = "rename-error"
    /\ CopiedMessage \in reported => WalkComplete
    /\ ScaffoldedMessage \in reported => (exitCode = 0 /\ CopiedMessage \in reported)

C25_Witness ==
    /\ pc = "exit"
    /\ exitCode = 1
    /\ cause = "rename-error"
    /\ reported = { CopiedMessage }
    /\ WalkComplete

\* C26: when the project name is omitted and the user cancels the prompt,
\* the process exits with code 0 and scaffold is never invoked: the process
\* takes no further step and no directory or file is created.
C26_PromptCancellation ==
    /\ [](cliAnswer = Cancelled =>
            /\ pc = "cancelled"
            /\ exitCode = 0
            /\ ~ScaffoldCalled
            /\ projectName = NoPath
            /\ cliTemplateDir = NoPath
            /\ fs = pre
            /\ created = {}
            /\ copied = {}
            /\ reported = {})
    /\ [][pc # "cancelled"]_allVars

C26_Witness ==
    /\ pc = "cancelled"
    /\ cliEntry = "main"
    /\ cliArg = Omitted
    /\ cliAnswer = Cancelled
    /\ exitCode = 0
    /\ fs = pre

\* C27 (as claimed): validate either calls next() exactly once and sends no
\* response (every supplied schema passed), or sends exactly one 400 response
\* and never calls next(); parts without a schema are never read or replaced.
C27_ExclusiveOutcome ==
    /\ nextCalls + sends <= 1
    /\ ValidateOver =>
          \/ /\ nextCalls = 1
             /\ sends = 0
             /\ res = NoResponse
             /\ \A k \in SchemaKeys : ~Fails(k)
          \/ /\ nextCalls = 0
             /\ sends = 1
             /\ res.status = 400
    /\ \A k \in SchemaKeys \ schemas :
          /\ req[k] = origReq[k]
          /\ \A i \in 1..Len(parseLog) : parseLog[i] # k

\* the call that breaks it: the query passed its schema and the assignment of
\* the parsed data threw, with neither next() nor a response
C27_Threw ==
    /\ validatePc = "threw"
    /\ parseLog[Len(parseLog)] = "query"
    /\ nextCalls = 0
    /\ sends = 0

\* C28 (as claimed): when validate responds 400, req.params, req.query,
\* req.headers and req.body all still hold their original values.
C28_Original == res.status = 400 => req = origReq

\* C28 (amended): when validate responds 400, the failing part, every later
\* part and every part without a schema hold their original values, and every
\* earlier part with a schema holds its parsed data.
C28_EarlierPartsReplaced ==
    res.status = 400 =>
        \A k \in SchemaKeys :
            req[k] = IF k \in schemas /\ DocPosition(k) < DocPosition(res.errorIn)
                     THEN "parsed"
                     ELSE origReq[k]

C28_Witness ==
    /\ res.status = 400
    /\ res.errorIn = "body"
    /\ origReq["params"] = "raw-ok"
    /\ req["params"] = "parsed"
    /\ req["body"] = "raw-bad"

\* the call is over and no user document has the key asked for
AbsentUserAsked == svcPc = "settled" /\ ~dbDown /\ svcArg \notin db

\* C29 (as claimed): when no user document has the given email, findByEmail
\* raises a "User not found" error, logged and rethrown, instead of resolving
\* to null, as findById does for a missing id.
C29_FindByEmailReportsMissing ==
    AbsentUserAsked =>
        /\ svcOutcome = Rejected(NotFound("User"))
        /\ Len(svcLog) = 1

\* what findById does, and findByEmail does not
C29_FindByIdReportsMissing ==
    (AbsentUserAsked /\ svcMethod = "findById") =>
        /\ svcOutcome = Rejected(NotFound("User"))
        /\ Len(svcLog) = 1

\* the call that breaks it: findByEmail resolved to null and logged nothing
C29_ResolvedNull ==
    /\ AbsentUserAsked
    /\ svcMethod = "findByEmail"
    /\ svcOutcome = Resolved("null")
    /\ svcLog = << >>

=============================================================================
